---- MODULE Spec2Model ----
(***************************************************************************)
(* Model of src/e.py: the Streamlit script of the visual menu challenge    *)
(* and recommendation platform.  The script's module-level names are the   *)
(* variables; every tab of the script is one action; the pure pieces       *)
(* (calculate_score, the menu filter, the label matcher, the leaderboard)  *)
(* are operators computed the way the code computes them.                  *)
(***************************************************************************)
EXTENDS Integers, Sequences, FiniteSets, TLC

VARIABLES
    menu,               \* fetch_menu(): list of menu item dicts
    dietary,            \* sidebar multiselect "Diet"
    allergies,          \* sidebar multiselect "Allergies"
    uploaded,           \* tab1 file_uploader returned a file
    label_annotations,  \* label_response.label_annotations
    object_annotations, \* obj_response.localized_object_annotations
    text_annotations,   \* text_response.text_annotations[1:]
    combined_labels,    \* tab1 combined_labels
    ratio,              \* results of fuzz.partial_ratio(label, item_text)
    matching_dishes,    \* tab1 matching_dishes
    filtered_menu,      \* tab3 filtered_menu
    leaderboard,        \* tab5 leaderboard[:5]
    bound,              \* names the current script run has assigned
    pc,                 \* position of the script run
    raised,             \* exception that ended the script run
    failed,             \* external services whose call raised in this run
    shown,              \* st.error / st.warning messages of this run
    store,              \* Firestore collection "visual_challenges"
    cache,              \* st.cache_data value of fetch_challenge_entries
    cache_valid,        \* the cached value is younger than ttl=60
    entries,            \* tab5 `entries` of each session's script run
    spc,                \* position of each session's script run in tab5
    clicks,             \* number of button actions done per entry and field
    entry,              \* argument of calculate_score
    score               \* value returned by calculate_score

vars == <<menu, dietary, allergies, uploaded, label_annotations,
          object_annotations, text_annotations, combined_labels, ratio,
          matching_dishes, filtered_menu, leaderboard, bound, pc, raised,
          failed, shown, store, cache, cache_valid, entries, spc, clicks,
          entry, score>>

(***************************************************************************)
(* Bounds of the model.                                                    *)
(***************************************************************************)
MaxCount == 2       \* largest counter value drawn for an entry
MaxMenu == 6        \* longest menu drawn for the matcher
MaxFilterMenu == 3  \* longest menu drawn for the filter
MaxEntries == 6     \* longest list of challenge entries drawn
MaxDocs == 2        \* documents the store holds at most in SpecStore
MaxClicks == 3      \* button actions per behaviour in SpecStore
NumSessions == 2    \* browser sessions in SpecStore

(***************************************************************************)
(* Program constants.                                                      *)
(***************************************************************************)
MatchThreshold == 60    \* if score > 60
MatchTopK == 5          \* matching_dishes ...[:5]
LeaderboardTopK == 5    \* leaderboard[:5]
ConfidenceTenths == 7   \* label.score > 0.7, confidences counted in tenths

Sessions == 1..NumSessions
Counters == {"views", "likes", "orders"}

(***************************************************************************)
(* Python dict helpers.                                                    *)
(***************************************************************************)
\* d.get(k, default)
Get(d, k, default) == IF k \in DOMAIN d THEN d[k] ELSE default

\* d | {"id": i}
WithId(d, i) == [k \in DOMAIN d \cup {"id"} |-> IF k = "id" THEN i ELSE d[k]]

\* x in lst, for a Python list lst
InList(x, lst) == \E i \in 1..Len(lst) : lst[i] = x

Min(a, b) == IF a <= b THEN a ELSE b

(***************************************************************************)
(* calculate_score                                                          *)
(***************************************************************************)
calculate_score_likes_once(e) ==
    Get(e, "views", 0) + Get(e, "likes", 0) + Get(e, "orders", 0) * 3
    + (IF Get(e, "trendy", FALSE) THEN 5 ELSE 0)
    + (IF Get(e, "diet_match", FALSE) THEN 3 ELSE 0)

calculate_score(e) ==
    LET base_score == Get(e, "views", 0) + Get(e, "likes", 0) * 2
                      + Get(e, "orders", 0) * 3
        with_trendy == IF Get(e, "trendy", FALSE) THEN base_score + 5
                       ELSE base_score
    IN  IF Get(e, "diet_match", FALSE) THEN with_trendy + 3 ELSE with_trendy

(***************************************************************************)
(* Tab 3: the menu filter (lines 248-257).                                 *)
(***************************************************************************)
\* the condition of the if, with tags and ingredients read by item.get
FilterKeep_or(item, diet, allerg) ==
    LET tags == Get(item, "dietary_tags", <<>>)
        ingredients == Get(item, "ingredients", <<>>)
    IN  (diet = {} \/ \E d \in diet : InList(d, tags))
        \/ (allerg = {} \/ \A a \in allerg : ~InList(a, ingredients))

FilterKeep(item, diet, allerg) ==
    LET tags == Get(item, "dietary_tags", <<>>)
        ingredients == Get(item, "ingredients", <<>>)
    IN  (diet = {} \/ \E d \in diet : InList(d, tags))
        /\ (allerg = {} \/ \A a \in allerg : ~InList(a, ingredients))

\* item.copy() with portion_size and ingredient_swap set
ItemCopy(item, portion, swap) ==
    [k \in DOMAIN item \cup {"portion_size", "ingredient_swap"} |->
        IF k = "portion_size" THEN portion
        ELSE IF k = "ingredient_swap" THEN swap
        ELSE item[k]]

\* the for loop: i is the next index of m, acc is filtered_menu so far
RECURSIVE FilterLoop(_, _, _, _, _, _, _)
FilterLoop(m, i, acc, diet, allerg, portion, swap) ==
    IF i > Len(m) THEN acc
    ELSE FilterLoop(m, i + 1,
                    IF FilterKeep(m[i], diet, allerg)
                    THEN Append(acc, ItemCopy(m[i], portion, swap))
                    ELSE acc,
                    diet, allerg, portion, swap)

FilterMenu(m, diet, allerg, portion, swap) ==
    FilterLoop(m, 1, <<>>, diet, allerg, portion, swap)

(***************************************************************************)
(* sorted(xs, key=..., reverse=True): the order of the indices of xs, by   *)
(* key descending, equal keys in their original order (Python's sort is    *)
(* stable, and reverse=True keeps the original order of equal elements).   *)
(***************************************************************************)
InsertDesc_strict(acc, i, keys) ==
    LET before == {j \in 1..Len(acc) : keys[acc[j]] > keys[i]}
        n == Cardinality(before)
    IN  SubSeq(acc, 1, n) \o <<i>> \o SubSeq(acc, n + 1, Len(acc))

\* acc is sorted; i goes after every index whose key is >= keys[i]
InsertDesc(acc, i, keys) ==
    LET before == {j \in 1..Len(acc) : keys[acc[j]] >= keys[i]}
        n == Cardinality(before)
    IN  SubSeq(acc, 1, n) \o <<i>> \o SubSeq(acc, n + 1, Len(acc))

RECURSIVE SortLoop(_, _, _)
SortLoop(keys, i, acc) ==
    IF i > Len(keys) THEN acc
    ELSE SortLoop(keys, i + 1, InsertDesc(acc, i, keys))

SortedDesc(keys) == SortLoop(keys, 1, <<>>)

\* xs[:n]
FirstN(xs, n) == SubSeq(xs, 1, Min(n, Len(xs)))

(***************************************************************************)
(* Tab 1: the label matcher (lines 124-142).                               *)
(***************************************************************************)
\* str.lower() on the strings the model draws
Lower(s) ==
    CASE s = "Food" -> "food"
      [] s = "Pizza" -> "pizza"
      [] s = "Plate" -> "plate"
      [] s = "Veggie Burger" -> "veggie burger"
      [] s = "Soup" -> "soup"
      [] s = "Vegan" -> "vegan"
      [] s = "Keto" -> "keto"
      [] s = "Nut-Free" -> "nut-free"
      [] s = "Soy-Free" -> "soy-free"
      [] s = "Fresh and light" -> "fresh and light"
      [] OTHER -> s

\* ' '.join(lst).lower(): the words of the joined string, "" for an empty list
JoinLower(lst) ==
    IF lst = <<>> THEN <<"">> ELSE [i \in 1..Len(lst) |-> Lower(lst[i])]

\* item_text, as the sequence of its space separated parts
ItemText(item) ==
    <<Lower(item.name)>> \o <<Lower(Get(item, "description", ""))>>
    \o JoinLower(Get(item, "ingredients", <<>>))
    \o JoinLower(Get(item, "dietary_tags", <<>>))

MaxOf(S) == CHOOSE x \in S : \A y \in S : y <= x

\* score = max(fuzz.partial_ratio(label, item_text) for label in combined_labels)
ItemScore(item, labels, r) == MaxOf({r[<<l, ItemText(item)>>] : l \in labels})

\* if score > 60
AboveThreshold_ge(s) == s >= MatchThreshold

AboveThreshold(s) == s > MatchThreshold

\* the dict appended to matching_dishes
MatchEntry(item, s) ==
    [name |-> item.name, score |-> s,
     description |-> Get(item, "description", ""),
     ingredients |-> Get(item, "ingredients", <<>>),
     dietary_tags |-> Get(item, "dietary_tags", <<>>),
     id |-> item.id]

RECURSIVE MatchLoop(_, _, _, _, _)
MatchLoop(m, i, acc, labels, r) ==
    IF i > Len(m) THEN acc
    ELSE LET s == ItemScore(m[i], labels, r)
         IN  MatchLoop(m, i + 1,
                       IF AboveThreshold(s) THEN Append(acc, MatchEntry(m[i], s))
                       ELSE acc,
                       labels, r)

\* matching_dishes after line 142
MatchingDishes(m, labels, r) ==
    LET found == MatchLoop(m, 1, <<>>, labels, r)
        order == SortedDesc([j \in 1..Len(found) |-> found[j].score])
    IN  FirstN([j \in 1..Len(order) |-> found[order[j]]], MatchTopK)

(***************************************************************************)
(* Tab 5: the leaderboard (lines 320-321).                                 *)
(***************************************************************************)
Leaderboard(es) ==
    LET order == SortedDesc([j \in 1..Len(es) |-> calculate_score(es[j])])
    IN  FirstN([j \in 1..Len(order) |-> es[order[j]]], LeaderboardTopK)

(***************************************************************************)
(* Inputs the specifications draw.                                         *)
(***************************************************************************)
\* lists of at most n dicts of K, the i-th with id i (doc.to_dict() | {"id": doc.id})
ListsWithId(K, n) ==
    {[i \in 1..Len(f) |-> WithId(f[i], i)] : f \in UNION {[1..m -> K] : m \in 0..n}}

\* a challenge entry dict holding the given counters and flags; a counter of -1
\* and a flag of "missing" are keys the dict does not hold
PartialEntry(v, l, o, t, d) ==
    [k \in (IF v >= 0 THEN {"views"} ELSE {})
           \cup (IF l >= 0 THEN {"likes"} ELSE {})
           \cup (IF o >= 0 THEN {"orders"} ELSE {})
           \cup (IF t # "missing" THEN {"trendy"} ELSE {})
           \cup (IF d # "missing" THEN {"diet_match"} ELSE {}) |->
        CASE k = "views" -> v
          [] k = "likes" -> l
          [] k = "orders" -> o
          [] k = "trendy" -> (t = "true")
          [] k = "diet_match" -> (d = "true")]

FlagInputs == {"missing", "true", "false"}

ScoreInputs ==
    {PartialEntry(v, l, o, t, d) : v \in -1..MaxCount, l \in -1..MaxCount,
                                   o \in -1..MaxCount,
                                   t \in FlagInputs, d \in FlagInputs}

DietOptions == {"Vegan", "Keto"}
AllergyOptions == {"Nut-Free", "Soy-Free"}

\* a menu item dict; a field given as <<"missing">> is a key the dict does not hold
MenuItem(name, tags, ingredients) ==
    [k \in {"name"}
           \cup (IF tags # <<"missing">> THEN {"dietary_tags"} ELSE {})
           \cup (IF ingredients # <<"missing">> THEN {"ingredients"} ELSE {}) |->
        CASE k = "name" -> name
          [] k = "dietary_tags" -> tags
          [] k = "ingredients" -> ingredients]

FilterItems ==
    {MenuItem("Soup", t, i) :
        t \in {<<"missing">>, <<"Vegan">>, <<"Keto", "Vegan">>},
        i \in {<<"missing">>, <<"Nut-Free">>, <<"tofu", "Soy-Free">>}}

MatchItems ==
    {MenuItem("Soup", <<"missing">>, <<"missing">>),
     MenuItem("Veggie Burger", <<"Vegan">>, <<"lettuce", "bun">>)}

LabelVocabulary == {"food", "pizza"}
RatioValues == {0, 60, 61, 100}

RankInputs ==
    {PartialEntry(-1, -1, -1, "missing", "missing"),
     PartialEntry(0, 0, 1, "false", "false"),
     PartialEntry(1, 1, 0, "false", "missing"),
     PartialEntry(0, 0, 0, "true", "false")}

(***************************************************************************)
(* States of the parts of the script a specification does not run.         *)
(***************************************************************************)
NoProfile == dietary = {} /\ allergies = {}

NoDetection ==
    /\ uploaded = FALSE
    /\ label_annotations = {}
    /\ object_annotations = {}
    /\ text_annotations = {}
    /\ combined_labels = {}
    /\ ratio = <<>>

NoResults ==
    /\ matching_dishes = <<>>
    /\ filtered_menu = <<>>
    /\ leaderboard = <<>>
    /\ bound = {}
    /\ raised = "none"
    /\ failed = {}
    /\ shown = {}

NoStore ==
    /\ store = <<>>
    /\ cache = <<>>
    /\ cache_valid = FALSE
    /\ spc = [s \in Sessions |-> "idle"]
    /\ clicks = <<>>

NoCall == entry = <<>> /\ score = 0

(***************************************************************************)
(* SpecScore: calculate_score called on every entry dict drawn.            *)
(***************************************************************************)
InitScore ==
    /\ entry \in ScoreInputs
    /\ score = 0
    /\ pc = "call"
    /\ menu = <<>> /\ NoProfile /\ NoDetection /\ NoResults /\ NoStore
    /\ entries = [s \in Sessions |-> <<>>]

CallCalculateScore ==
    /\ pc = "call"
    /\ score' = calculate_score(entry)
    /\ pc' = "returned"
    /\ UNCHANGED <<menu, dietary, allergies, uploaded, label_annotations,
                   object_annotations, text_annotations, combined_labels,
                   ratio, matching_dishes, filtered_menu, leaderboard, bound,
                   raised, failed, shown, store, cache, cache_valid, entries,
                   spc, clicks, entry>>

SpecScore == InitScore /\ [][CallCalculateScore]_vars

(***************************************************************************)
(* SpecFilter: the tab 3 filter run on every menu and profile drawn.       *)
(***************************************************************************)
InitFilter ==
    /\ menu \in ListsWithId(FilterItems, MaxFilterMenu)
    /\ dietary \in SUBSET DietOptions
    /\ allergies \in SUBSET AllergyOptions
    /\ pc = "tab3"
    /\ NoDetection /\ NoResults /\ NoStore /\ NoCall
    /\ entries = [s \in Sessions |-> <<>>]

RunFilter ==
    /\ pc = "tab3"
    /\ \E portion \in {"Regular", "Large"} :
           filtered_menu' = FilterMenu(menu, dietary, allergies, portion, "")
    /\ bound' = bound \cup {"filtered_menu"}
    /\ pc' = "filtered"
    /\ UNCHANGED <<menu, dietary, allergies, uploaded, label_annotations,
                   object_annotations, text_annotations, combined_labels,
                   ratio, matching_dishes, leaderboard, raised, failed, shown,
                   store, cache, cache_valid, entries, spc, clicks, entry,
                   score>>

SpecFilter == InitFilter /\ [][RunFilter]_vars

(***************************************************************************)
(* SpecMatch: the tab 1 matcher run on every menu, label set and table of  *)
(* partial_ratio results drawn.  The label sets drawn are the ones that    *)
(* pass the food_related guard of line 111.                                *)
(***************************************************************************)
InitMatch ==
    /\ menu \in ListsWithId(MatchItems, MaxMenu)
    /\ combined_labels \in (SUBSET LabelVocabulary) \ {{}}
    /\ ratio \in [LabelVocabulary \X {ItemText(k) : k \in MatchItems}
                    -> RatioValues]
    /\ uploaded = TRUE
    /\ label_annotations = {}
    /\ object_annotations = {}
    /\ text_annotations = {}
    /\ pc = "match"
    /\ NoProfile /\ NoResults /\ NoStore /\ NoCall
    /\ entries = [s \in Sessions |-> <<>>]

RunMatch ==
    /\ pc = "match"
    /\ matching_dishes' = MatchingDishes(menu, combined_labels, ratio)
    /\ bound' = bound \cup {"matching_dishes"}
    /\ pc' = "matched"
    /\ UNCHANGED <<menu, dietary, allergies, uploaded, label_annotations,
                   object_annotations, text_annotations, combined_labels,
                   ratio, filtered_menu, leaderboard, raised, failed, shown,
                   store, cache, cache_valid, entries, spc, clicks, entry,
                   score>>

SpecMatch == InitMatch /\ [][RunMatch]_vars

(***************************************************************************)
(* SpecRank: the tab 5 leaderboard computed on every entry list drawn.     *)
(***************************************************************************)
InitRank ==
    /\ \E es \in ListsWithId(RankInputs, MaxEntries) :
           entries = [s \in Sessions |-> es]
    /\ pc = "rank"
    /\ menu = <<>> /\ NoProfile /\ NoDetection /\ NoResults /\ NoStore /\ NoCall

RunRank ==
    /\ pc = "rank"
    /\ leaderboard' = Leaderboard(entries[1])
    /\ bound' = bound \cup {"leaderboard"}
    /\ pc' = "ranked"
    /\ UNCHANGED <<menu, dietary, allergies, uploaded, label_annotations,
                   object_annotations, text_annotations, combined_labels,
                   ratio, matching_dishes, filtered_menu, raised, failed,
                   shown, store, cache, cache_valid, entries, spc, clicks,
                   entry, score>>

SpecRank == InitRank /\ [][RunRank]_vars

(***************************************************************************)
(* The challenge entry store and its cache.                                *)
(***************************************************************************)
\* the dict tab 4 writes (lines 278-289); the timestamp is left out
NewDoc(staff_name, dish_name, ingredient_list, plating_style, trendy, diet_match) ==
    [staff |-> staff_name, dish |-> dish_name, ingredients |-> ingredient_list,
     style |-> plating_style, trendy |-> trendy, diet_match |-> diet_match,
     views |-> 0, likes |-> 0, orders |-> 0]

\* db.collection("visual_challenges").stream(), each dict with its id
StreamStore == [i \in 1..Len(store) |-> WithId(store[i], i)]

\* fetch_challenge_entries() under st.cache_data(ttl=60)
FetchChallengeEntries == IF cache_valid THEN cache ELSE StreamStore

\* the value a button handler writes: the counter shown in the run's entries, plus 1
ButtonValue(s, i, field) == entries[s][i][field] + 1

\* document(id).update({field: value})
UpdateDoc(i, field, value) == [store EXCEPT ![i][field] = value]

TotalClicks ==
    LET RECURSIVE Sum(_)
        Sum(i) == IF i = 0 THEN 0
                  ELSE clicks[i].views + clicks[i].likes + clicks[i].orders
                       + Sum(i - 1)
    IN  Sum(Len(clicks))

(***************************************************************************)
(* SpecStore: tabs 4 and 5 of the script runs of several sessions, which   *)
(* Streamlit runs in one thread per session, against one store and one     *)
(* st.cache_data cache.  A script run goes tab4 -> fetch -> buttons, and    *)
(* the session's next run (st.rerun() or the next interaction) starts over. *)
(***************************************************************************)
InitStore ==
    /\ store = <<>>
    /\ cache = <<>>
    /\ cache_valid = FALSE
    /\ entries = [s \in Sessions |-> <<>>]
    /\ spc = [s \in Sessions |-> "tab4"]
    /\ clicks = <<>>
    /\ leaderboard = <<>>
    /\ bound = {}
    /\ raised = "none" /\ failed = {} /\ shown = {}
    /\ matching_dishes = <<>> /\ filtered_menu = <<>>
    /\ pc = "sessions"
    /\ menu = <<>> /\ NoProfile /\ NoDetection /\ NoCall

\* the form inputs of tab 4 the model draws
FormDoc == NewDoc("Ana", "Soup", <<"leek">>, "classic", TRUE, FALSE)

\* tab 4 (lines 261-290): the form, submitted with a photo or not
Tab4Submit(s) ==
    /\ spc[s] = "tab4"
    /\ \/ /\ Len(store) < MaxDocs
          /\ store' = Append(store, FormDoc)
          /\ clicks' = Append(clicks, [views |-> 0, likes |-> 0, orders |-> 0])
       \/ UNCHANGED <<store, clicks>>
    /\ spc' = [spc EXCEPT ![s] = "fetch"]
    /\ UNCHANGED <<menu, dietary, allergies, uploaded, label_annotations,
                   object_annotations, text_annotations, combined_labels,
                   ratio, matching_dishes, filtered_menu, leaderboard, bound,
                   pc, raised, failed, shown, cache, cache_valid, entries,
                   entry, score>>

\* line 296
Tab5Fetch(s) ==
    /\ spc[s] = "fetch"
    /\ entries' = [entries EXCEPT ![s] = FetchChallengeEntries]
    /\ cache' = FetchChallengeEntries
    /\ cache_valid' = TRUE
    /\ spc' = [spc EXCEPT ![s] = "buttons"]
    /\ UNCHANGED <<menu, dietary, allergies, uploaded, label_annotations,
                   object_annotations, text_annotations, combined_labels,
                   ratio, matching_dishes, filtered_menu, leaderboard, bound,
                   pc, raised, failed, shown, store, clicks, entry, score>>

\* lines 298-316 with one button pressed: the update, then st.rerun()
Tab5Button(s) ==
    /\ spc[s] = "buttons"
    /\ TotalClicks < MaxClicks
    /\ \E i \in 1..Len(entries[s]), field \in Counters :
           /\ store' = UpdateDoc(i, field, ButtonValue(s, i, field))
           /\ clicks' = [clicks EXCEPT ![i][field] = @ + 1]
    /\ spc' = [spc EXCEPT ![s] = "tab4"]
    /\ UNCHANGED <<menu, dietary, allergies, uploaded, label_annotations,
                   object_annotations, text_annotations, combined_labels,
                   ratio, matching_dishes, filtered_menu, leaderboard, bound,
                   pc, raised, failed, shown, cache, cache_valid, entries,
                   entry, score>>

\* lines 298-322 with no button pressed: the leaderboard is shown
Tab5Leaderboard(s) ==
    /\ spc[s] = "buttons"
    /\ leaderboard' = Leaderboard(entries[s])
    /\ bound' = bound \cup {"leaderboard"}
    /\ spc' = [spc EXCEPT ![s] = "tab4"]
    /\ UNCHANGED <<menu, dietary, allergies, uploaded, label_annotations,
                   object_annotations, text_annotations, combined_labels,
                   ratio, matching_dishes, filtered_menu, pc, raised, failed,
                   shown, store, cache, cache_valid, entries, clicks, entry,
                   score>>

\* 60 seconds pass since the cached value was fetched (ttl=60)
CacheExpire ==
    /\ cache_valid
    /\ cache_valid' = FALSE
    /\ UNCHANGED <<menu, dietary, allergies, uploaded, label_annotations,
                   object_annotations, text_annotations, combined_labels,
                   ratio, matching_dishes, filtered_menu, leaderboard, bound,
                   pc, raised, failed, shown, store, cache, entries, spc,
                   clicks, entry, score>>

NextStore ==
    \/ \E s \in Sessions : Tab4Submit(s)
    \/ \E s \in Sessions : Tab5Fetch(s)
    \/ \E s \in Sessions : Tab5Button(s)
    \/ \E s \in Sessions : Tab5Leaderboard(s)
    \/ CacheExpire

SpecStore == InitStore /\ [][NextStore]_vars

(***************************************************************************)
(* Tab 1: detection (lines 84-113).                                        *)
(***************************************************************************)
\* labels: the label annotations with score > 0.7 (line 87)
Labels(la) == {<<a.description, a.score>> : a \in {x \in la : x.score > ConfidenceTenths}}

\* objects: every localized object annotation (line 89)
Objects(oa) == {<<a.name, a.score>> : a \in oa}

\* texts: the stripped, lower-cased descriptions that are not blank (line 91)
Texts(ta) == {Lower(t) : t \in {x \in ta : x # ""}}

\* lines 101-102
CombinedLabels(la, oa, ta) ==
    {Lower(p[1]) : p \in Labels(la) \cup Objects(oa)} \cup Texts(ta)

\* term in label, on the strings the model draws: none of them holds another
\* one as a proper substring
Contains(label, term) == label = term

\* lines 107-110
FoodRelated(labels) ==
    \E label \in labels :
        \/ Lower(label) \in {"food", "dish", "meal"}
        \/ Contains(Lower(label), "food")
        \/ \E food_term \in {"pizza", "burger", "pasta", "salad", "sushi"} :
               Contains(Lower(label), food_term)

(***************************************************************************)
(* Tab 5: rendering the entries (lines 298-316).                           *)
(***************************************************************************)
\* the keys lines 300-314 subscript on every entry
RenderedKeys == {"dish", "staff", "style", "ingredients", "likes", "views", "orders", "id"}

\* entry[...] raises KeyError on one of the first n entries
RenderRaises(es, n) == \E i \in 1..n : ~(RenderedKeys \subseteq DOMAIN es[i])

(***************************************************************************)
(* SpecRun: one run of the script, top to bottom, for one session.  The    *)
(* external services answer or raise at each call.                         *)
(***************************************************************************)
DropKey(d, k) == [x \in DOMAIN d \ {k} |-> d[x]]

FullItem ==
    [name |-> "Veggie Burger", description |-> "Fresh and light",
     ingredients |-> <<"lettuce", "bun">>, dietary_tags |-> <<"Vegan">>]

RunMenus ==
    {<<>>,
     <<WithId(FullItem, 1)>>,
     <<WithId([name |-> "Soup"], 1)>>,
     <<WithId(FullItem, 1), WithId([name |-> "Soup"], 2)>>}

RunStores ==
    {<<>>,
     <<FormDoc>>,
     <<FormDoc, DropKey(FormDoc, "likes")>>,
     <<DropKey(FormDoc, "ingredients")>>}

LabelResults ==
    SUBSET {[description |-> "Food", score |-> 9],
            [description |-> "Plate", score |-> 7]}
ObjectResults == SUBSET {[name |-> "Pizza", score |-> 5]}
TextResults == SUBSET {"Soup"}
RunRatioValues == {60, 100}

InitRun ==
    /\ menu \in RunMenus
    /\ store \in RunStores
    /\ dietary \in {{}, {"Vegan"}}
    /\ allergies \in {{}, {"Soy-Free"}}
    /\ uploaded \in BOOLEAN
    /\ label_annotations = {}
    /\ object_annotations = {}
    /\ text_annotations = {}
    /\ combined_labels = {}
    /\ ratio = <<>>
    /\ pc = "tab1"
    /\ cache = <<>>
    /\ cache_valid = FALSE
    /\ entries = [s \in Sessions |-> <<>>]
    /\ spc = [s \in Sessions |-> "idle"]
    /\ clicks = <<>>
    /\ NoResults /\ NoCall

\* tab 1 (lines 69-199)
Tab1 ==
    /\ pc = "tab1"
    /\ \/ \* no file uploaded
          /\ ~uploaded
          /\ pc' = "tab2"
          /\ UNCHANGED <<label_annotations, object_annotations,
                         text_annotations, combined_labels, ratio,
                         matching_dishes, bound, raised, failed, shown>>
       \/ \* a vision_client call raises (lines 86-93 are in no try)
          /\ uploaded
          /\ failed' = failed \cup {"detection"}
          /\ raised' = "ServiceError"
          /\ pc' = "crashed"
          /\ UNCHANGED <<label_annotations, object_annotations,
                         text_annotations, combined_labels, ratio,
                         matching_dishes, bound, shown>>
       \/ \* the image is not food related: st.warning, st.stop()
          /\ uploaded
          /\ \E la \in LabelResults, oa \in ObjectResults, ta \in TextResults :
                 /\ ~FoodRelated(CombinedLabels(la, oa, ta))
                 /\ label_annotations' = la
                 /\ object_annotations' = oa
                 /\ text_annotations' = ta
                 /\ combined_labels' = CombinedLabels(la, oa, ta)
          /\ shown' = shown \cup {"The image doesn't appear to contain food."}
          /\ pc' = "stopped"
          /\ UNCHANGED <<ratio, matching_dishes, bound, raised, failed>>
       \/ \* the matcher runs, then the generation call answers or raises
          /\ uploaded
          /\ \E la \in LabelResults, oa \in ObjectResults, ta \in TextResults :
                 /\ FoodRelated(CombinedLabels(la, oa, ta))
                 /\ label_annotations' = la
                 /\ object_annotations' = oa
                 /\ text_annotations' = ta
                 /\ combined_labels' = CombinedLabels(la, oa, ta)
                 /\ \E r \in [CombinedLabels(la, oa, ta)
                                \X {ItemText(menu[i]) : i \in 1..Len(menu)}
                                -> RunRatioValues] :
                        /\ ratio' = r
                        /\ matching_dishes' =
                               MatchingDishes(menu, CombinedLabels(la, oa, ta), r)
          /\ bound' = bound \cup {"matching_dishes"}
          /\ \/ UNCHANGED <<failed, shown>>
             \/ /\ failed' = failed \cup {"generation"}
                /\ shown' = shown \cup {"AI analysis failed"}
          /\ pc' = "tab2"
          /\ UNCHANGED raised
    /\ UNCHANGED <<menu, dietary, allergies, uploaded, filtered_menu,
                   leaderboard, store, cache, cache_valid, entries, spc,
                   clicks, entry, score>>

\* tab 2 (lines 202-240): the generation call of line 239 is in no try
Tab2 ==
    /\ pc = "tab2"
    /\ \/ /\ pc' = "tab3"
          /\ UNCHANGED <<raised, failed>>
       \/ /\ failed' = failed \cup {"generation"}
          /\ raised' = "ServiceError"
          /\ pc' = "crashed"
    /\ UNCHANGED <<menu, dietary, allergies, uploaded, label_annotations,
                   object_annotations, text_annotations, combined_labels,
                   ratio, matching_dishes, filtered_menu, leaderboard, bound,
                   shown, store, cache, cache_valid, entries, spc, clicks,
                   entry, score>>

\* tab 3 (lines 243-258)
Tab3 ==
    /\ pc = "tab3"
    /\ \E portion \in {"Regular", "Large"} :
           filtered_menu' = FilterMenu(menu, dietary, allergies, portion, "")
    /\ bound' = bound \cup {"filtered_menu"}
    /\ pc' = "tab4"
    /\ UNCHANGED <<menu, dietary, allergies, uploaded, label_annotations,
                   object_annotations, text_annotations, combined_labels,
                   ratio, matching_dishes, leaderboard, raised, failed, shown,
                   store, cache, cache_valid, entries, spc, clicks, entry,
                   score>>

\* tab 4 (lines 261-290)
Tab4 ==
    /\ pc = "tab4"
    /\ \/ /\ Len(store) < MaxDocs
          /\ store' = Append(store, FormDoc)
       \/ UNCHANGED store
    /\ pc' = "tab5"
    /\ UNCHANGED <<menu, dietary, allergies, uploaded, label_annotations,
                   object_annotations, text_annotations, combined_labels,
                   ratio, matching_dishes, filtered_menu, leaderboard, bound,
                   raised, failed, shown, cache, cache_valid, entries, spc,
                   clicks, entry, score>>

\* tab 5 (lines 293-322)
Tab5 ==
    /\ pc = "tab5"
    /\ entries' = [entries EXCEPT ![1] = FetchChallengeEntries]
    /\ cache' = FetchChallengeEntries
    /\ cache_valid' = TRUE
    /\ LET es == FetchChallengeEntries IN
       \/ \* a subscript of lines 300-314 raises KeyError
          /\ RenderRaises(es, Len(es))
          /\ raised' = "KeyError"
          /\ pc' = "crashed"
          /\ UNCHANGED <<store, leaderboard, bound>>
       \/ \* a button of entry i is pressed: the update, then st.rerun()
          /\ \E i \in 1..Len(es), field \in Counters :
                 /\ ~RenderRaises(es, i)
                 /\ store' = UpdateDoc(i, field, es[i][field] + 1)
          /\ pc' = "rerun"
          /\ UNCHANGED <<raised, leaderboard, bound>>
       \/ \* no button is pressed: the leaderboard
          /\ ~RenderRaises(es, Len(es))
          /\ leaderboard' = Leaderboard(es)
          /\ bound' = bound \cup {"leaderboard"}
          /\ pc' = "done"
          /\ UNCHANGED <<raised, store>>
    /\ UNCHANGED <<menu, dietary, allergies, uploaded, label_annotations,
                   object_annotations, text_annotations, combined_labels,
                   ratio, matching_dishes, filtered_menu, failed, shown, spc,
                   clicks, entry, score>>

NextRun == Tab1 \/ Tab2 \/ Tab3 \/ Tab4 \/ Tab5

SpecRun == InitRun /\ [][NextRun]_vars

(***************************************************************************)
(* Claims.                                                                 *)
(***************************************************************************)
Range(f) == {f[i] : i \in DOMAIN f}

\* the value of a counter of e, 0 when e does not hold it
CounterOf(e, k) == IF k \in DOMAIN e THEN e[k] ELSE 0
\* 1 when e holds flag k set, 0 when it is unset or missing
FlagOf(e, k) == IF k \in DOMAIN e /\ e[k] THEN 1 ELSE 0

\* C4: calculate_score returns exactly v + 2*l + 3*o + (5 if t) + (3 if d),
\* a missing counter or flag counting as 0 / false, and it does not raise.
C4_ScoreFormula ==
    pc = "returned" =>
        /\ score = CounterOf(entry, "views") + 2 * CounterOf(entry, "likes")
                   + 3 * CounterOf(entry, "orders")
                   + 5 * FlagOf(entry, "trendy") + 3 * FlagOf(entry, "diet_match")
        /\ raised = "none"

C4_Witness ==
    /\ pc = "returned"
    /\ DOMAIN entry = {"views", "orders", "trendy"}
    /\ entry.views = 2 /\ entry.orders = 1 /\ entry.trendy
    /\ score = 10

TagsOf(item) ==
    IF "dietary_tags" \in DOMAIN item THEN Range(item.dietary_tags) ELSE {}
IngredientsOf(item) ==
    IF "ingredients" \in DOMAIN item THEN Range(item.ingredients) ELSE {}

\* the inclusion rule of the claim, for the i-th item of the menu
Included(i) ==
    /\ dietary = {} \/ TagsOf(menu[i]) \cap dietary # {}
    /\ allergies = {} \/ IngredientsOf(menu[i]) \cap allergies = {}

\* C5: the filter keeps an item if and only if (no diet is selected or one
\* selected diet is among its tags) and (no allergy is selected or no selected
\* allergy is among its ingredients); kept items are in menu order, each once.
C5_FilterRule ==
    pc = "filtered" =>
        /\ \A i \in 1..Len(menu) :
               Included(i) <=> \E j \in 1..Len(filtered_menu) :
                                   filtered_menu[j].id = menu[i].id
        /\ \A j \in 1..Len(filtered_menu) :
               filtered_menu[j].id \in {menu[i].id : i \in 1..Len(menu)}
        /\ \A j, k \in 1..Len(filtered_menu) :
               j < k => filtered_menu[j].id < filtered_menu[k].id

C5_Witness ==
    /\ pc = "filtered"
    /\ dietary = {"Vegan"} /\ allergies = {"Soy-Free"}
    /\ Len(menu) = 3
    /\ Len(filtered_menu) = 2
    /\ filtered_menu[1].id = 1 /\ filtered_menu[2].id = 3

\* the partial_ratio results of the i-th menu item, one per label
RatiosOf(i) == {ratio[<<l, ItemText(menu[i])>>] : l \in combined_labels}

MatchedIds == {matching_dishes[j].id : j \in 1..Len(matching_dishes)}

\* C6: matching_dishes holds at most 5 items, each with a score in (60, 100],
\* sorted by score descending with equal scores in menu order, and no item
\* left out has a score higher than a retained one.
C6_MatchResult ==
    pc = "matched" =>
        /\ Len(matching_dishes) <= 5
        /\ \A j \in 1..Len(matching_dishes) :
               /\ matching_dishes[j].score > 60
               /\ matching_dishes[j].score <= 100
               /\ matching_dishes[j].id \in 1..Len(menu)
               /\ matching_dishes[j].score \in RatiosOf(matching_dishes[j].id)
               /\ \A r \in RatiosOf(matching_dishes[j].id) :
                      r <= matching_dishes[j].score
        /\ \A j, k \in 1..Len(matching_dishes) :
               j < k =>
                   /\ matching_dishes[j].score >= matching_dishes[k].score
                   /\ matching_dishes[j].score = matching_dishes[k].score
                          => matching_dishes[j].id < matching_dishes[k].id
        /\ \A i \in (1..Len(menu)) \ MatchedIds :
               \A j \in 1..Len(matching_dishes) :
                   \A r \in RatiosOf(i) : r <= matching_dishes[j].score

C6_Witness ==
    /\ pc = "matched"
    /\ Len(menu) = 6
    /\ Len(matching_dishes) = 5
    /\ matching_dishes[1].score = 100
    /\ matching_dishes[4].score = 61
    /\ matching_dishes[1].id = 2
    /\ \E i \in (1..Len(menu)) \ MatchedIds : 61 \in RatiosOf(i)

RankedIds == {leaderboard[j].id : j \in 1..Len(leaderboard)}

\* C9: the leaderboard is the first min(5, n) entries of the stable descending
\* sort of all n entries by calculate_score: scores do not increase down the
\* list, equal scores keep their input order, and no entry outside the list
\* has a higher score than one inside it.
C9_Leaderboard ==
    pc = "ranked" =>
        LET es == entries[1] IN
        /\ Len(leaderboard) = (IF Len(es) < 5 THEN Len(es) ELSE 5)
        /\ \A j \in 1..Len(leaderboard) :
               /\ leaderboard[j].id \in 1..Len(es)
               /\ leaderboard[j] = es[leaderboard[j].id]
        /\ \A j, k \in 1..Len(leaderboard) :
               j < k =>
                   /\ calculate_score(leaderboard[j]) >= calculate_score(leaderboard[k])
                   /\ calculate_score(leaderboard[j]) = calculate_score(leaderboard[k])
                          => leaderboard[j].id < leaderboard[k].id
        /\ \A i \in (1..Len(es)) \ RankedIds :
               \A j \in 1..Len(leaderboard) :
                   /\ calculate_score(es[i]) <= calculate_score(leaderboard[j])
                   /\ calculate_score(es[i]) = calculate_score(leaderboard[j])
                          => leaderboard[j].id < i

C9_Witness ==
    /\ pc = "ranked"
    /\ Len(entries[1]) = 6
    /\ Len(leaderboard) = 5
    /\ leaderboard[1].id = 4
    /\ calculate_score(leaderboard[1]) = 5
    /\ calculate_score(leaderboard[2]) = 3
    /\ calculate_score(leaderboard[3]) = 3
    /\ leaderboard[2].id = 1 /\ leaderboard[3].id = 6
    /\ calculate_score(entries[1][5]) = 0 /\ 5 \notin RankedIds

\* C1: no engagement increment is lost: the stored value of every counter of
\* every entry is its initial value (0) plus the number of button actions
\* done on it.
C1_NoLostIncrement ==
    pc = "sessions" =>
        \A i \in 1..Len(store) : \A f \in Counters :
            store[i][f] = 0 + clicks[i][f]

\* C2: the stored counters never decrease: no step lowers the stored value of
\* views, likes or orders of an existing entry.
C2_CountersMonotonic ==
    [][pc = "sessions" =>
          \A i \in 1..Len(store) : \A f \in Counters :
              store'[i][f] >= store[i][f]]_vars

\* C3: when a call to the detection service or the text-generation service
\* raises, the error does not end the script run: it is shown as the error
\* state of the failing step, and the run that reaches its end has computed
\* the menu filter and the leaderboard.
C3_DegradedStillUsable ==
    failed # {} =>
        /\ raised # "ServiceError"
        /\ pc = "done" =>
               /\ "filtered_menu" \in bound
               /\ "leaderboard" \in bound
               /\ "AI analysis failed" \in shown

\* tab 1 has processed an upload for which the detection service answered
Detected == uploaded /\ pc # "tab1" /\ "detection" \notin failed

\* C7: with an empty combined label set the matcher yields an empty list and
\* raises nothing, and with an empty menu it yields an empty list.
C7_DegenerateMatch ==
    Detected =>
        /\ combined_labels = {} =>
               /\ "matching_dishes" \in bound
               /\ matching_dishes = <<>>
               /\ raised = "none"
        /\ (menu = <<>> /\ FoodRelated(combined_labels)) =>
               /\ "matching_dishes" \in bound
               /\ matching_dishes = <<>>

\* C8: every string of combined_labels that reaches the fuzzy matching step
\* comes from a detection whose confidence is above 0.7.
C8_OnlyConfidentLabels ==
    (Detected /\ "matching_dishes" \in bound /\ menu # <<>>) =>
        \A l \in combined_labels :
            \/ \E a \in label_annotations :
                   Lower(a.description) = l /\ a.score > 7
            \/ \E a \in object_annotations :
                   Lower(a.name) = l /\ a.score > 7

\* C10: a record with a missing counter or list field never makes the
\* leaderboard tab, the filter or the matcher raise.
C10_MalformedNeverRaises == raised # "KeyError"

====
